---- MODULE Spec2Model ----
(***************************************************************************)
(* Model of scripts/release.py: a command line tool that bumps per-flavor, *)
(* per-platform build numbers kept in version.json, patches pubspec.yaml   *)
(* and codemagic.yaml, shells out to the packaging and store-upload tools  *)
(* and appends to CHANGELOG.md.                                            *)
(*                                                                         *)
(* Every invocation of the script is a process that walks through the      *)
(* statements of its handler; each access to a file on disk is one step,   *)
(* so that two invocations running at once interleave exactly where the    *)
(* operating system lets them.  The date prefix of a changelog line comes  *)
(* from the wall clock and is left out of the modelled entry.  The         *)
(* external tools are taken to be installed: a launched tool returns some  *)
(* return code.  Whether the build artifact exists, whether the            *)
(* credentials lookup succeeds and what the tools return is chosen by the  *)
(* environment at each call.                                               *)
(***************************************************************************)
EXTENDS Integers, Sequences, FiniteSets, TLC

VARIABLES
    store,      \* version.json: the persisted document, or Missing
    changelog,  \* CHANGELOG.md: the sequence of appended entries
    pubspec,    \* pubspec.yaml: a sequence of lines, or Missing
    codemagic,  \* codemagic.yaml: a sequence of lines, or Missing
    proc,       \* per invocation slot: handler position, locals, history
    runs,       \* number of invocations started so far
    overlapped, \* history: some invocation started while another was running
    initial,    \* history: the document version.json held at the beginning
    bumps       \* history: per pair, the increments written to version.json

vars == <<store, changelog, pubspec, codemagic, proc, runs, overlapped, initial, bumps>>

----------------------------------------------------------------------------
(* Bounds of the model *)

MaxRuns == 2
MaxLines == 2
MaxTokens == 2

----------------------------------------------------------------------------
(* Program constants *)

SUPPORTED_FLAVORS == <<"workplacebyls", "workplacebytsphub", "tiabytsp">>
SUPPORTED_PLATFORMS == <<"android", "ios">>

Range(s) == {s[k] : k \in 1..Len(s)}
FlavorSet == Range(SUPPORTED_FLAVORS)
PlatformSet == Range(SUPPORTED_PLATFORMS)

Procs == {"p1", "p2"}
Missing == <<>>

----------------------------------------------------------------------------
(* version.json *)

BuildNameOf(f) ==
    CASE f = "workplacebyls" -> "1.2.0"
      [] f = "workplacebytsphub" -> "2.0.1"
      [] OTHER -> "3.1.4"

DocUniform ==
    [f \in FlavorSet |->
        [build_name |-> BuildNameOf(f),
         android |-> [build_number |-> 5],
         ios |-> [build_number |-> 5]]]

DocDistinct ==
    [f \in FlavorSet |->
        [build_name |-> BuildNameOf(f),
         android |-> [build_number |-> IF f = "workplacebyls" THEN 0
                                       ELSE IF f = "workplacebytsphub" THEN 2 ELSE 4],
         ios |-> [build_number |-> IF f = "workplacebyls" THEN 7
                                   ELSE IF f = "workplacebytsphub" THEN 9 ELSE 11]]]

InitDocs == {DocUniform, DocDistinct}

\* data[flavor][platform]['build_number']
BuildNumber(d, f, pl) == d[f][pl].build_number

SetBuildNumberBothPlatforms(d, f, pl, n) ==
    [d EXCEPT ![f].android.build_number = n, ![f].ios.build_number = n]
\* data[flavor][platform]['build_number'] = n
SetBuildNumber(d, f, pl, n) == [d EXCEPT ![f][pl].build_number = n]

NextBuildNumberSkip(n) == n + 2
NextBuildNumberDown(n) == n - 1
\* build_number = current['build_number'] + 1
NextBuildNumber(n) == n + 1

\* write_version_file: the whole document replaces the file's content
write_version_file(d) == d

\* append_changelog: one line per call, at the end of the file
ChangelogEntry(f, pl, name, n) ==
    [flavor |-> f, platform |-> pl, build_name |-> name, build_number |-> n]

append_changelog(log, f, pl, name, n) == Append(log, ChangelogEntry(f, pl, name, n))

----------------------------------------------------------------------------
(* pubspec.yaml and codemagic.yaml: a text file is a sequence of lines and a
   line is a sequence of tokens; str.startswith looks at the first token,
   the `in` operator at all of them. *)

Absent == [exists |-> FALSE, lines |-> <<>>]
File(lines) == [exists |-> TRUE, lines |-> lines]

startswith(line, key) == Len(line) > 0 /\ line[1] = key
contains(line, key) == \E k \in 1..Len(line) : line[k] = key

\* f'version: {build_name}+{build_number}\n'
VersionLine(build_name, build_number) ==
    <<"version:", build_name, ToString(build_number)>>
\* f'      BUILD_NAME: "{build_name}"\n'
BuildNameLine(build_name) == <<"  ", "BUILD_NAME", build_name>>
\* f'      BUILD_NUMBER: "{build_number}"\n'
BuildNumberLine(build_number) == <<"  ", "BUILD_NUMBER", ToString(build_number)>>

update_pubspec_yaml(lines, build_name, build_number) ==
    [k \in 1..Len(lines) |->
        IF startswith(lines[k], "version:")
        THEN VersionLine(build_name, build_number)
        ELSE lines[k]]

update_codemagic_yaml(file, build_name, build_number) ==
    IF ~file.exists THEN file
    ELSE File([k \in 1..Len(file.lines) |->
                 IF contains(file.lines[k], "BUILD_NAME")
                 THEN BuildNameLine(build_name)
                 ELSE IF contains(file.lines[k], "BUILD_NUMBER")
                 THEN BuildNumberLine(build_number)
                 ELSE file.lines[k]])

\* the two files as a project keeps them: the CI descriptor defines both
\* variables and a build script refers to one of them
MainPubspec ==
    File(<< <<"name:", "app">>, VersionLine("1.0.0", 1), <<"  ", "sdk">> >>)
MainCodemagic ==
    File(<< BuildNameLine("1.0.0"), BuildNumberLine(1),
            <<"  ", "script:", "BUILD_NUMBER">> >>)

----------------------------------------------------------------------------
(* Command lines *)

BadFlavor == "badflavor"
BadPlatform == "windows"

\* the positional arguments after the command word
ValidOptions == {<<f, pl>> : f \in FlavorSet, pl \in PlatformSet}
BumpOptions ==
    ValidOptions \cup {<<"workplacebyls">>, <<"workplacebyls", "android", "extra">>,
                       <<BadFlavor, "android">>, <<"tiabytsp", BadPlatform>>}
ReleaseOptions == ValidOptions \cup {<<"workplacebyls">>, <<BadFlavor, "android">>}

Invocations ==
    {[command |-> "bump", options |-> o] : o \in BumpOptions}
    \cup {[command |-> "release", options |-> o] : o \in ReleaseOptions}
    \cup {[command |-> c, options |-> <<>>] :
             c \in {"bump-all", "release-all", "deploy", "--help"}}

ValidBumpArgsFlavorOnly(flavor, platform) == flavor \in FlavorSet
\* not (flavor not in SUPPORTED_FLAVORS or platform not in SUPPORTED_PLATFORMS)
ValidBumpArgs(flavor, platform) == flavor \in FlavorSet /\ platform \in PlatformSet

\* data[flavor][platform] and data[flavor]['build_name'] raise no KeyError
HasEntry(d, flavor, platform) ==
    /\ flavor \in DOMAIN d
    /\ platform \in DOMAIN d[flavor] \ {"build_name"}

----------------------------------------------------------------------------
(* Invocation slots *)

\* pc, command, options, data, i and exit are the interpreter's state (exit is
\* the process exit code once pc = "done"); posix tells whether the machine
\* release-all runs on is a POSIX system; the other fields are history:
\* start and log0 are version.json and the changelog length when the run began,
\* writes and appended count its writes of version.json and its changelog
\* lines, calls lists the argument vectors the packaging tool received, events
\* lists its steps in order, tool_failed tells whether an external tool
\* returned nonzero or an artifact was missing, error names the exception
\* that ended the run when the credentials lookup raised.
IdleProc ==
    [pc |-> "idle", command |-> "", options |-> <<>>, data |-> Missing, i |-> 0,
     exit |-> 0, posix |-> FALSE,
     start |-> Missing, log0 |-> 0, writes |-> 0, appended |-> 0,
     calls |-> <<>>, events |-> <<>>, tool_failed |-> FALSE, error |-> ""]

InitWith(docs) ==
    /\ store \in docs
    /\ changelog = <<>>
    /\ proc = [p \in Procs |-> IdleProc]
    /\ runs = 0
    /\ overlapped = FALSE
    /\ initial = store
    /\ bumps = [f \in FlavorSet |-> [pl \in PlatformSet |-> 0]]

----------------------------------------------------------------------------
(* Steps shared by the handlers *)

Upd(p, r) == proc' = [proc EXCEPT ![p] = r]

\* sys.exit(code), a normal return (0) or an uncaught exception (1); the
\* interpreter's memory goes with the process
Exit(r, code) ==
    [r EXCEPT !.pc = "done", !.exit = code, !.data = Missing, !.i = 0, !.posix = FALSE]

Event(r, e) == [r EXCEPT !.events = Append(@, e)]

NPairs == Len(SUPPORTED_FLAVORS) * Len(SUPPORTED_PLATFORMS)

FlavorMajorRepeatLast(k) ==
    LET j == IF k = NPairs THEN k - 1 ELSE k
    IN <<SUPPORTED_FLAVORS[((j - 1) \div Len(SUPPORTED_PLATFORMS)) + 1],
         SUPPORTED_PLATFORMS[((j - 1) % Len(SUPPORTED_PLATFORMS)) + 1]>>
\* for flavor in SUPPORTED_FLAVORS: for platform in SUPPORTED_PLATFORMS
FlavorMajor(k) ==
    <<SUPPORTED_FLAVORS[((k - 1) \div Len(SUPPORTED_PLATFORMS)) + 1],
      SUPPORTED_PLATFORMS[((k - 1) % Len(SUPPORTED_PLATFORMS)) + 1]>>

\* for platform in SUPPORTED_PLATFORMS: for flavor in SUPPORTED_FLAVORS
PlatformMajor(k) ==
    <<SUPPORTED_FLAVORS[((k - 1) % Len(SUPPORTED_FLAVORS)) + 1],
      SUPPORTED_PLATFORMS[((k - 1) \div Len(SUPPORTED_FLAVORS)) + 1]>>

ShorebirdCmdNewNumber(platform, flavor, build_name, build_number) ==
    <<"shorebird", "release", platform, flavor, build_name, ToString(build_number + 1)>>
\* cmd = ['shorebird', 'release', platform, ..., '--flavor', flavor, ...,
\*        f'--build-name={build_name}', f'--build-number={build_number}']
ShorebirdCmd(platform, flavor, build_name, build_number) ==
    <<"shorebird", "release", platform, flavor, build_name, ToString(build_number)>>

\* subprocess.run(cmd, shell=...) with cmd a list: the argument vector the
\* program receives.  With shell=True on POSIX only the first item is the
\* command string; the other items become arguments of the shell itself.
subprocess_argv(cmd, shell, on_posix) ==
    IF shell /\ on_posix THEN <<cmd[1]>> ELSE cmd

RaisesOnFailure(returncode) == returncode # 0
\* subprocess.run(...) is called without check=True and the handlers never
\* look at result.returncode: no return code raises
subprocess_raises(returncode) == FALSE

ReturnCodes == {0, 1}

\* upload_to_google_play / upload_to_app_store: what the environment decides
UploadOutcomes == {"no_artifact", "no_credentials", "uploaded", "upload_failed"}

\* the record after the upload function ran with the given outcome
Upload(r, outcome, next_pc) ==
    LET e == Event(r, "upload") IN
    CASE outcome = "no_artifact" -> [e EXCEPT !.tool_failed = TRUE, !.pc = next_pc]
      [] outcome = "no_credentials" -> Exit([e EXCEPT !.error = "credentials"], 1)
      [] outcome = "uploaded" -> [e EXCEPT !.pc = next_pc]
      [] OTHER -> IF subprocess_raises(1) THEN Exit(e, 1)
                  ELSE [e EXCEPT !.tool_failed = TRUE, !.pc = next_pc]

\* the record after the packaging tool ran and returned rc
Package(r, cmd, shell, rc, next_pc) ==
    LET e == [Event(r, "package") EXCEPT
                !.calls = Append(@, subprocess_argv(cmd, shell, r.posix))]
    IN IF subprocess_raises(rc) THEN Exit(e, 1)
       ELSE [e EXCEPT !.tool_failed = @ \/ rc # 0, !.pc = next_pc]

AllBumped(b) == [f \in FlavorSet |-> [pl \in PlatformSet |-> b[f][pl] + 1]]

----------------------------------------------------------------------------
(* main *)

\* The overlaps the model explores: a bump may run at the same time as
\* another bump or as a release; two releases, and a command that walks all
\* pairs, run while no other invocation does.
Overlappable(c1, c2) ==
    {c1, c2} \subseteq {"bump", "release"} /\ "bump" \in {c1, c2}
Resting(q) == proc[q].pc \in {"idle", "done"}
\* A new invocation takes slot p1 when it is free (slots are only names).
MayStart(p, command) ==
    /\ p = "p2" => ~Resting("p1")
    /\ \A q \in Procs \ {p} : Resting(q) \/ Overlappable(command, proc[q].command)

Start(p) ==
    /\ proc[p].pc \in {"idle", "done"}
    /\ runs < MaxRuns
    /\ \E inv \in Invocations :
         LET r == [IdleProc EXCEPT !.command = inv.command, !.options = inv.options,
                                   !.start = store, !.log0 = Len(changelog)]
         IN /\ MayStart(p, inv.command)
            /\ Upd(p, CASE inv.command = "--help" -> Exit(r, 0)
                         [] inv.command = "bump" -> [r EXCEPT !.pc = "bump"]
                         [] inv.command = "bump-all" -> [r EXCEPT !.pc = "bump_all"]
                         [] inv.command = "release" -> [r EXCEPT !.pc = "release"]
                         [] inv.command = "release-all" -> [r EXCEPT !.pc = "bump_all"]
                         [] OTHER -> Exit(r, 1))
    /\ runs' = runs + 1
    /\ overlapped' = (overlapped \/ \E q \in Procs \ {p} : ~Resting(q))
    /\ UNCHANGED <<store, changelog, pubspec, codemagic, initial, bumps>>

----------------------------------------------------------------------------
(* handle_bump *)

BumpArgs(p) ==
    LET r == proc[p] IN
    /\ r.pc = "bump"
    /\ Upd(p, IF Len(r.options) < 2 THEN Exit(r, 1)
              ELSE IF Len(r.options) > 2 THEN Exit(r, 1)
              ELSE IF ~ValidBumpArgs(r.options[1], r.options[2]) THEN Exit(r, 1)
              ELSE [r EXCEPT !.pc = "bump_read"])
    /\ UNCHANGED <<store, changelog, pubspec, codemagic, runs, overlapped, initial, bumps>>

BumpRead(p) ==
    LET r == proc[p]
        flavor == r.options[1]
        platform == r.options[2]
    IN
    /\ r.pc = "bump_read"
    /\ Upd(p, IF store = Missing THEN Exit(r, 1)
              ELSE IF ~HasEntry(store, flavor, platform) THEN Exit(Event(r, "read"), 1)
              ELSE [Event(r, "read") EXCEPT
                      !.data = SetBuildNumber(store, flavor, platform,
                                   NextBuildNumber(BuildNumber(store, flavor, platform))),
                      !.pc = "bump_write"])
    /\ UNCHANGED <<store, changelog, pubspec, codemagic, runs, overlapped, initial, bumps>>

BumpWrite(p) ==
    LET r == proc[p] IN
    /\ r.pc = "bump_write"
    /\ store' = write_version_file(r.data)
    /\ Upd(p, [Event(r, "write") EXCEPT !.writes = @ + 1, !.pc = "bump_log"])
    /\ bumps' = [bumps EXCEPT ![r.options[1]][r.options[2]] = @ + 1]
    /\ UNCHANGED <<changelog, pubspec, codemagic, runs, overlapped, initial>>

BumpLog(p) ==
    LET r == proc[p]
        flavor == r.options[1]
        platform == r.options[2]
    IN
    /\ r.pc = "bump_log"
    /\ changelog' = append_changelog(changelog, flavor, platform,
                        r.data[flavor].build_name, BuildNumber(r.data, flavor, platform))
    /\ Upd(p, Exit([Event(r, "changelog") EXCEPT !.appended = @ + 1], 0))
    /\ UNCHANGED <<store, pubspec, codemagic, runs, overlapped, initial, bumps>>

----------------------------------------------------------------------------
(* handle_bump_all *)

BumpAllRead(p) ==
    LET r == proc[p] IN
    /\ r.pc = "bump_all"
    /\ Upd(p, IF store = Missing THEN Exit(r, 1)
              ELSE [Event(r, "read") EXCEPT !.data = store, !.i = 1, !.pc = "bump_all_pair"])
    /\ UNCHANGED <<store, changelog, pubspec, codemagic, runs, overlapped, initial, bumps>>

BumpAllPair(p) ==
    LET r == proc[p]
        flavor == FlavorMajor(r.i)[1]
        platform == FlavorMajor(r.i)[2]
        build_number == NextBuildNumber(BuildNumber(r.data, flavor, platform))
    IN
    /\ r.pc = "bump_all_pair"
    /\ changelog' = append_changelog(changelog, flavor, platform,
                        r.data[flavor].build_name, build_number)
    /\ Upd(p, [Event(r, "changelog") EXCEPT
                  !.data = SetBuildNumber(@, flavor, platform, build_number),
                  !.appended = @ + 1,
                  !.i = @ + 1,
                  !.pc = IF r.i = NPairs THEN "bump_all_write" ELSE "bump_all_pair"])
    /\ UNCHANGED <<store, pubspec, codemagic, runs, overlapped, initial, bumps>>

BumpAllWrite(p) ==
    LET r == proc[p]
        w == [Event(r, "write") EXCEPT !.writes = @ + 1]
    IN
    /\ r.pc = "bump_all_write"
    /\ store' = write_version_file(r.data)
    /\ Upd(p, IF r.command = "bump-all" THEN Exit(w, 0)
              ELSE [w EXCEPT !.pc = "release_all_read"])
    /\ bumps' = AllBumped(bumps)
    /\ UNCHANGED <<changelog, pubspec, codemagic, runs, overlapped, initial>>

----------------------------------------------------------------------------
(* handle_release *)

ReleaseArgs(p) ==
    LET r == proc[p] IN
    /\ r.pc = "release"
    /\ Upd(p, IF Len(r.options) # 2 THEN Exit(r, 1)
              ELSE [r EXCEPT !.pc = "release_read"])
    /\ UNCHANGED <<store, changelog, pubspec, codemagic, runs, overlapped, initial, bumps>>

ReleaseRead(p) ==
    LET r == proc[p] IN
    /\ r.pc = "release_read"
    /\ Upd(p, IF store = Missing THEN Exit(r, 1)
              ELSE IF ~HasEntry(store, r.options[1], r.options[2])
              THEN Exit(Event(r, "read"), 1)
              ELSE [Event(r, "read") EXCEPT !.data = store, !.pc = "release_pubspec"])
    /\ UNCHANGED <<store, changelog, pubspec, codemagic, runs, overlapped, initial, bumps>>

ReleasePubspec(p) ==
    LET r == proc[p]
        flavor == r.options[1]
        platform == r.options[2]
    IN
    /\ r.pc = "release_pubspec"
    /\ IF ~pubspec.exists
       THEN Upd(p, Exit(r, 1)) /\ UNCHANGED pubspec
       ELSE /\ pubspec' = File(update_pubspec_yaml(pubspec.lines,
                                  r.data[flavor].build_name,
                                  BuildNumber(r.data, flavor, platform)))
            /\ Upd(p, [Event(r, "patch_pubspec") EXCEPT !.pc = "release_codemagic"])
    /\ UNCHANGED <<store, changelog, codemagic, runs, overlapped, initial, bumps>>

ReleaseCodemagic(p) ==
    LET r == proc[p]
        flavor == r.options[1]
        platform == r.options[2]
    IN
    /\ r.pc = "release_codemagic"
    /\ codemagic' = update_codemagic_yaml(codemagic, r.data[flavor].build_name,
                                          BuildNumber(r.data, flavor, platform))
    /\ Upd(p, [Event(r, "patch_codemagic") EXCEPT !.pc = "release_package"])
    /\ UNCHANGED <<store, changelog, pubspec, runs, overlapped, initial, bumps>>

ReleasePackage(p) ==
    LET r == proc[p]
        flavor == r.options[1]
        platform == r.options[2]
        cmd == ShorebirdCmd(platform, flavor, r.data[flavor].build_name,
                            BuildNumber(r.data, flavor, platform))
    IN
    /\ r.pc = "release_package"
    /\ \E rc \in ReturnCodes : Upd(p, Package(r, cmd, FALSE, rc, "release_upload"))
    /\ UNCHANGED <<store, changelog, pubspec, codemagic, runs, overlapped, initial, bumps>>

ReleaseUpload(p) ==
    LET r == proc[p] IN
    /\ r.pc = "release_upload"
    /\ \E outcome \in UploadOutcomes : Upd(p, Upload(r, outcome, "release_write"))
    /\ UNCHANGED <<store, changelog, pubspec, codemagic, runs, overlapped, initial, bumps>>

ReleaseWrite(p) ==
    LET r == proc[p]
        flavor == r.options[1]
        platform == r.options[2]
        new_build_number == NextBuildNumber(BuildNumber(r.data, flavor, platform))
        data == SetBuildNumber(r.data, flavor, platform, new_build_number)
    IN
    /\ r.pc = "release_write"
    /\ store' = write_version_file(data)
    /\ Upd(p, [Event(r, "write") EXCEPT !.data = data, !.writes = @ + 1,
                                        !.pc = "release_log"])
    /\ bumps' = [bumps EXCEPT ![flavor][platform] = @ + 1]
    /\ UNCHANGED <<changelog, pubspec, codemagic, runs, overlapped, initial>>

ReleaseLog(p) ==
    LET r == proc[p]
        flavor == r.options[1]
        platform == r.options[2]
    IN
    /\ r.pc = "release_log"
    /\ changelog' = append_changelog(changelog, flavor, platform,
                        r.data[flavor].build_name, BuildNumber(r.data, flavor, platform))
    /\ Upd(p, Exit([Event(r, "changelog") EXCEPT !.appended = @ + 1], 0))
    /\ UNCHANGED <<store, pubspec, codemagic, runs, overlapped, initial, bumps>>

----------------------------------------------------------------------------
(* handle_release_all, after its call of handle_bump_all *)

ReleaseAllRead(p) ==
    LET r == proc[p] IN
    /\ r.pc = "release_all_read"
    /\ \E on_posix \in BOOLEAN :
         Upd(p, IF store = Missing THEN Exit(r, 1)
                ELSE [Event(r, "read") EXCEPT !.data = store, !.i = 1,
                                             !.posix = on_posix,
                                             !.pc = "release_all_pubspec"])
    /\ UNCHANGED <<store, changelog, pubspec, codemagic, runs, overlapped, initial, bumps>>

ReleaseAllPubspec(p) ==
    LET r == proc[p]
        flavor == PlatformMajor(r.i)[1]
        platform == PlatformMajor(r.i)[2]
    IN
    /\ r.pc = "release_all_pubspec"
    /\ IF ~pubspec.exists
       THEN Upd(p, Exit(r, 1)) /\ UNCHANGED pubspec
       ELSE /\ pubspec' = File(update_pubspec_yaml(pubspec.lines,
                                  r.data[flavor].build_name,
                                  BuildNumber(r.data, flavor, platform)))
            /\ Upd(p, [Event(r, "patch_pubspec") EXCEPT !.pc = "release_all_codemagic"])
    /\ UNCHANGED <<store, changelog, codemagic, runs, overlapped, initial, bumps>>

ReleaseAllCodemagic(p) ==
    LET r == proc[p]
        flavor == PlatformMajor(r.i)[1]
        platform == PlatformMajor(r.i)[2]
    IN
    /\ r.pc = "release_all_codemagic"
    /\ codemagic' = update_codemagic_yaml(codemagic, r.data[flavor].build_name,
                                          BuildNumber(r.data, flavor, platform))
    /\ Upd(p, [Event(r, "patch_codemagic") EXCEPT !.pc = "release_all_package"])
    /\ UNCHANGED <<store, changelog, pubspec, runs, overlapped, initial, bumps>>

ReleaseAllPackage(p) ==
    LET r == proc[p]
        flavor == PlatformMajor(r.i)[1]
        platform == PlatformMajor(r.i)[2]
        cmd == ShorebirdCmd(platform, flavor, r.data[flavor].build_name,
                            BuildNumber(r.data, flavor, platform))
    IN
    /\ r.pc = "release_all_package"
    /\ \E rc \in ReturnCodes : Upd(p, Package(r, cmd, TRUE, rc, "release_all_upload"))
    /\ UNCHANGED <<store, changelog, pubspec, codemagic, runs, overlapped, initial, bumps>>

ReleaseAllUpload(p) ==
    LET r == proc[p] IN
    /\ r.pc = "release_all_upload"
    /\ \E outcome \in UploadOutcomes : Upd(p, Upload(r, outcome, "release_all_log"))
    /\ UNCHANGED <<store, changelog, pubspec, codemagic, runs, overlapped, initial, bumps>>

ReleaseAllLog(p) ==
    LET r == proc[p]
        flavor == PlatformMajor(r.i)[1]
        platform == PlatformMajor(r.i)[2]
    IN
    /\ r.pc = "release_all_log"
    /\ changelog' = append_changelog(changelog, flavor, platform,
                        r.data[flavor].build_name, BuildNumber(r.data, flavor, platform))
    /\ Upd(p, [Event(r, "changelog") EXCEPT
                  !.appended = @ + 1,
                  !.i = @ + 1,
                  !.pc = IF r.i = NPairs THEN "release_all_write"
                         ELSE "release_all_pubspec"])
    /\ UNCHANGED <<store, pubspec, codemagic, runs, overlapped, initial, bumps>>

ReleaseAllWrite(p) ==
    LET r == proc[p] IN
    /\ r.pc = "release_all_write"
    /\ store' = write_version_file(r.data)
    /\ Upd(p, Exit([Event(r, "write") EXCEPT !.writes = @ + 1], 0))
    /\ UNCHANGED <<changelog, pubspec, codemagic, runs, overlapped, initial, bumps>>

----------------------------------------------------------------------------
(* Specifications *)

Step(p) ==
    \/ Start(p)
    \/ BumpArgs(p) \/ BumpRead(p) \/ BumpWrite(p) \/ BumpLog(p)
    \/ BumpAllRead(p) \/ BumpAllPair(p) \/ BumpAllWrite(p)
    \/ ReleaseArgs(p) \/ ReleaseRead(p) \/ ReleasePubspec(p) \/ ReleaseCodemagic(p)
    \/ ReleasePackage(p) \/ ReleaseUpload(p) \/ ReleaseWrite(p) \/ ReleaseLog(p)
    \/ ReleaseAllRead(p) \/ ReleaseAllPubspec(p) \/ ReleaseAllCodemagic(p)
    \/ ReleaseAllPackage(p) \/ ReleaseAllUpload(p) \/ ReleaseAllLog(p)
    \/ ReleaseAllWrite(p)

\* invocations may overlap in time
MainFiles == pubspec = MainPubspec /\ codemagic = MainCodemagic
Init == InitWith({DocDistinct, Missing}) /\ MainFiles
Next == \E p \in Procs : Step(p)
Spec == Init /\ [][Next]_vars

\* invocations run one after another
SeqInit == InitWith(InitDocs \cup {Missing}) /\ MainFiles
SeqNext == Step("p1")
SeqSpec == SeqInit /\ [][SeqNext]_vars

\* the two config patchers applied to arbitrary small files
Tokens == {"version:", "BUILD_NAME", "BUILD_NUMBER", "  "}
SeqsUpTo(S, n) == UNION {[1..m -> S] : m \in 0..n}
TextFiles == {File(l) : l \in SeqsUpTo(SeqsUpTo(Tokens, MaxTokens), MaxLines)}
BuildNames == {BuildNameOf(f) : f \in FlavorSet}
BuildNumbers == {5, 6}

PatchInit ==
    /\ InitWith({DocUniform})
    /\ \/ pubspec \in TextFiles /\ codemagic = MainCodemagic
       \/ pubspec = MainPubspec /\ codemagic \in TextFiles \cup {Absent}

\* update_pubspec_yaml(build_name, build_number); open() raises when the
\* manifest is absent, which it never is here
PatchPubspec ==
    /\ pubspec.exists
    /\ \E build_name \in BuildNames, build_number \in BuildNumbers :
         pubspec' = File(update_pubspec_yaml(pubspec.lines, build_name, build_number))
    /\ UNCHANGED <<store, changelog, codemagic, proc, runs, overlapped, initial, bumps>>

\* update_codemagic_yaml(build_name, build_number)
PatchCodemagic ==
    /\ \E build_name \in BuildNames, build_number \in BuildNumbers :
         codemagic' = update_codemagic_yaml(codemagic, build_name, build_number)
    /\ UNCHANGED <<store, changelog, pubspec, proc, runs, overlapped, initial, bumps>>

PatchNext == PatchPubspec \/ PatchCodemagic
PatchSpec == PatchInit /\ [][PatchNext]_vars

----------------------------------------------------------------------------
(* Vocabulary of the properties *)

Pairs == FlavorSet \X PlatformSet

IsPrefix(a, b) == Len(a) <= Len(b) /\ \A k \in 1..Len(a) : a[k] = b[k]

\* d1 is d0 with the build numbers of the pairs in S one higher, and nothing
\* else changed
PlusOneAt(d0, d1, S) ==
    /\ d0 # Missing /\ d1 # Missing
    /\ DOMAIN d1 = DOMAIN d0
    /\ \A f \in FlavorSet :
         /\ DOMAIN d1[f] = DOMAIN d0[f]
         /\ d1[f].build_name = d0[f].build_name
         /\ \A pl \in PlatformSet :
              d1[f][pl] = [build_number |->
                  d0[f][pl].build_number + (IF <<f, pl>> \in S THEN 1 ELSE 0)]

SupportedArgs(r) ==
    /\ Len(r.options) = 2
    /\ r.options[1] \in FlavorSet
    /\ r.options[2] \in PlatformSet

AllResting == \A q \in Procs : Resting(q)

Repeat(x, n) == [k \in 1..n |-> x]

\* the last line of the changelog is the entry of pair (f, pl) with number n
LastLineIs(f, pl, name, n) ==
    /\ changelog # <<>>
    /\ changelog[Len(changelog)] =
         [flavor |-> f, platform |-> pl, build_name |-> name, build_number |-> n]

----------------------------------------------------------------------------
(* C1: a completed bump of a supported pair leaves that pair's persisted
   build_number exactly one higher than it was when the run began, and leaves
   every build_name and every other pair's build_number as they were; runs
   add up, so that k increments of a pair leave it at its first value plus k. *)
C1_BumpAddsOne ==
    /\ \A p \in Procs :
         LET r == proc[p] IN
         (r.pc = "done" /\ r.command = "bump" /\ SupportedArgs(r) /\ r.start # Missing)
         => /\ r.exit = 0
            /\ PlusOneAt(r.start, store, {<<r.options[1], r.options[2]>>})
    /\ (AllResting /\ initial # Missing)
       => \A f \in FlavorSet, pl \in PlatformSet :
            store[f][pl].build_number = initial[f][pl].build_number + bumps[f][pl]

\* two runs in a row have bumped the same pair, the second one a bump
C1_Witness ==
    \E p \in Procs :
        LET r == proc[p] IN
        /\ r.pc = "done" /\ r.command = "bump" /\ r.exit = 0 /\ SupportedArgs(r)
        /\ bumps[r.options[1]][r.options[2]] = 2
        /\ store[r.options[1]][r.options[2]].build_number =
             initial[r.options[1]][r.options[2]].build_number + 2

----------------------------------------------------------------------------
(* C2: a release of a pair whose persisted build_number is n patches the
   manifest and the CI descriptor with n and hands n to the packaging tool
   while version.json is still untouched; its steps come in the order patch
   configs, packaging tool, store upload, write of version.json, changelog;
   when it has completed the pair is at n+1, every other pair is as before and
   the appended changelog line carries n+1. *)
ReleaseOrder ==
    <<"read", "patch_pubspec", "patch_codemagic", "package", "upload", "write",
      "changelog">>

C2_ReleaseShipsCurrentNumber ==
    \A p \in Procs :
        LET r == proc[p]
            f == r.options[1]
            pl == r.options[2]
            name == r.start[f].build_name
            n == r.start[f][pl].build_number
        IN
        (r.command = "release" /\ SupportedArgs(r) /\ r.start # Missing)
        => /\ IsPrefix(r.events, ReleaseOrder)
           /\ r.writes = 0 => store = r.start
           /\ (Len(r.events) >= 2 /\ r.writes = 0)
              => \A k \in 1..Len(pubspec.lines) :
                   startswith(pubspec.lines[k], "version:")
                   => pubspec.lines[k] = <<"version:", name, ToString(n)>>
           /\ (Len(r.events) >= 3 /\ r.writes = 0)
              => \E k \in 1..Len(codemagic.lines) :
                   codemagic.lines[k] = <<"  ", "BUILD_NUMBER", ToString(n)>>
           /\ r.calls # <<>>
              => r.calls = << <<"shorebird", "release", pl, f, name, ToString(n)>> >>
           /\ (r.pc = "done" /\ r.exit = 0)
              => /\ r.events = ReleaseOrder
                 /\ Len(r.calls) = 1
                 /\ PlusOneAt(r.start, store, {<<f, pl>>})
                 /\ Len(changelog) = r.log0 + 1
                 /\ LastLineIs(f, pl, name, n + 1)

C2_Witness ==
    \E p \in Procs :
        LET r == proc[p] IN
        /\ r.command = "release" /\ SupportedArgs(r) /\ r.start # Missing
        /\ r.pc = "done" /\ r.exit = 0
        /\ r.start[r.options[1]][r.options[2]].build_number = 5

----------------------------------------------------------------------------
(* C3: a completed bump-all leaves every pair's persisted build_number
   exactly one higher than in the document it started from and every
   build_name unchanged, the same result any other iteration order gives;
   version.json is written once, after all pairs were incremented in memory. *)
RECURSIVE BumpedInOrder(_, _, _)
BumpedInOrder(d, order, k) ==
    IF k > Len(order) THEN d
    ELSE BumpedInOrder(
            [d EXCEPT ![order[k][1]][order[k][2]].build_number = @ + 1], order, k + 1)

PlatformMajorOrder == [k \in 1..NPairs |-> PlatformMajor(k)]

C3_BumpAllAddsOneEverywhere ==
    \A p \in Procs :
        LET r == proc[p] IN
        (r.command = "bump-all" /\ r.start # Missing)
        => /\ r.writes = 0 => store = r.start
           /\ r.pc = "bump_all_write" => PlusOneAt(r.start, r.data, Pairs)
           /\ r.pc = "done"
              => /\ r.exit = 0
                 /\ r.writes = 1
                 /\ r.events = <<"read">> \o Repeat("changelog", NPairs) \o <<"write">>
                 /\ PlusOneAt(r.start, store, Pairs)
                 /\ store = BumpedInOrder(r.start, PlatformMajorOrder, 1)

C3_Witness ==
    \E p \in Procs :
        LET r == proc[p] IN
        /\ r.command = "bump-all" /\ r.pc = "done" /\ r.exit = 0
        /\ r.start = DocDistinct
        /\ store["tiabytsp"].ios.build_number = 12

----------------------------------------------------------------------------
(* C4: a bump with a flavor outside the supported flavors, a platform
   outside the supported platforms, or fewer than two positional arguments
   exits with code 1 without having read or written version.json and
   without a line appended to the changelog. *)
C4_InvalidBumpChangesNothing ==
    \A p \in Procs :
        LET r == proc[p] IN
        (/\ r.pc = "done" /\ r.command = "bump"
         /\ \/ Len(r.options) < 2
            \/ /\ Len(r.options) = 2
               /\ r.options[1] \notin FlavorSet \/ r.options[2] \notin PlatformSet)
        => /\ r.exit = 1
           /\ r.events = <<>>
           /\ r.writes = 0 /\ r.appended = 0
           /\ store = r.start
           /\ Len(changelog) = r.log0

\* a supported flavor with an unsupported platform, on an existing store
C4_Witness ==
    \E p \in Procs :
        LET r == proc[p] IN
        /\ r.pc = "done" /\ r.command = "bump" /\ r.exit = 1
        /\ r.options = <<"tiabytsp", BadPlatform>>
        /\ r.start # Missing

----------------------------------------------------------------------------
(* C5: a release with supported arguments on an existing version.json runs
   to completion whatever return codes the packaging tool and the upload tool
   give, and when the build artifact is missing: it exits 0, the pair is at
   n+1 and exactly one changelog line with n+1 was appended, the same final
   store and changelog as when every tool succeeded.  (A run whose credentials
   lookup raises launches no upload tool and is none of these cases.) *)
C5_ToolFailuresDoNotStopRelease ==
    \A p \in Procs :
        LET r == proc[p]
            f == r.options[1]
            pl == r.options[2]
        IN
        (/\ r.pc = "done" /\ r.command = "release" /\ SupportedArgs(r)
         /\ r.start # Missing /\ r.error # "credentials")
        => /\ r.exit = 0
           /\ PlusOneAt(r.start, store, {<<f, pl>>})
           /\ r.appended = 1
           /\ Len(changelog) = r.log0 + 1
           /\ LastLineIs(f, pl, r.start[f].build_name, r.start[f][pl].build_number + 1)

C5_Witness ==
    \E p \in Procs :
        LET r == proc[p] IN
        /\ r.pc = "done" /\ r.command = "release" /\ SupportedArgs(r)
        /\ r.start # Missing /\ r.tool_failed /\ r.exit = 0
        /\ store[r.options[1]][r.options[2]].build_number =
             r.start[r.options[1]][r.options[2]].build_number + 1

----------------------------------------------------------------------------
(* C6: the changelog only grows at its end, and a run that completes has
   appended exactly one line per pair its workflow touches: one for bump and
   release, one per supported pair for bump-all and release-all. *)
Touched(command) ==
    CASE command \in {"bump", "release"} -> 1
      [] command \in {"bump-all", "release-all"} -> NPairs
      [] OTHER -> 0

C6_OneLinePerTouchedPair ==
    [][/\ IsPrefix(changelog, changelog')
       /\ \A p \in Procs :
            (proc[p].pc # "done" /\ proc'[p].pc = "done" /\ proc'[p].exit = 0)
            => proc'[p].appended = Touched(proc'[p].command)]_vars

----------------------------------------------------------------------------
(* Shape and step of the persisted document *)
Complete(d) ==
    /\ d # Missing
    /\ \A f \in FlavorSet : f \in DOMAIN d /\ \A pl \in PlatformSet : pl \in DOMAIN d[f]

NeverLower ==
    store # Missing
    => /\ Complete(store')
       /\ \A f \in FlavorSet, pl \in PlatformSet :
            store'[f][pl].build_number >= store[f][pl].build_number

(* C7 as stated: whether invocations run one after another or overlap, the
   persisted document keeps an entry for every supported pair and no pair's
   build_number is ever lower than it was before. *)
C7_NeverLowerEvenOverlapping == [][NeverLower]_vars

(* C7 as amended: as long as the invocations have run one after another, the
   persisted document keeps an entry for every supported pair and no pair's
   build_number is ever lower than it was before. *)
C7_NeverLowerOneAfterAnother == [][~overlapped' => NeverLower]_vars

C7_Witness ==
    /\ ~overlapped /\ AllResting /\ initial # Missing
    /\ \E f \in FlavorSet, pl \in PlatformSet :
         store[f][pl].build_number = initial[f][pl].build_number + 2

----------------------------------------------------------------------------
(* C8: two invocations that overlap can lose an update.  Whenever no
   invocation is running, each pair's persisted build_number lies between
   its first value and that value plus the increments written for the pair,
   and it equals the latter as long as no two invocations overlapped; the
   witness is a state where two overlapping bumps both exited 0 and a pair is
   short of an increment. *)
C8_OnlyOverlapLosesUpdates ==
    (AllResting /\ initial # Missing)
    => \A f \in FlavorSet, pl \in PlatformSet :
         /\ store[f][pl].build_number >= initial[f][pl].build_number
         /\ store[f][pl].build_number <= initial[f][pl].build_number + bumps[f][pl]
         /\ ~overlapped
            => store[f][pl].build_number = initial[f][pl].build_number + bumps[f][pl]

C8_Witness ==
    /\ overlapped /\ initial # Missing
    /\ \A p \in Procs :
         proc[p].pc = "done" /\ proc[p].command = "bump" /\ proc[p].exit = 0
    /\ \E f \in FlavorSet, pl \in PlatformSet :
         store[f][pl].build_number < initial[f][pl].build_number + bumps[f][pl]

----------------------------------------------------------------------------
(* C9: release-all first persists every pair one higher than in the document
   it started from, before any config patch or packaging call; then the
   packaging tool is invoked once per supported pair, every android release
   before any ios release, each time with the pair's already incremented
   number; the final write leaves every pair at exactly the start value
   plus one. *)
C9_ReleaseAllShipsBumpedNumbers ==
    \A p \in Procs :
        LET r == proc[p] IN
        (r.command = "release-all" /\ r.start # Missing)
        => /\ r.writes = 0 => \A k \in 1..Len(r.events) : r.events[k] \in {"read", "changelog"}
           /\ r.writes >= 1 => PlusOneAt(r.start, store, Pairs)
           /\ \A k \in 1..Len(r.calls) :
                LET f == SUPPORTED_FLAVORS[((k - 1) % Len(SUPPORTED_FLAVORS)) + 1]
                    pl == IF k <= Len(SUPPORTED_FLAVORS) THEN "android" ELSE "ios"
                IN r.calls[k] = <<"shorebird", "release", pl, f, r.start[f].build_name,
                                  ToString(r.start[f][pl].build_number + 1)>>
           /\ (r.pc = "done" /\ r.exit = 0)
              => /\ Len(r.calls) = NPairs
                 /\ r.writes = 2

----------------------------------------------------------------------------
(* C10: both config patchers keep the number and order of the lines of the
   file they rewrite; a manifest line that begins with the version key
   becomes the new version line, a CI descriptor line that begins with the
   build-name key or the build-number key becomes the new value, every
   other line is written back unchanged; an absent CI descriptor stays
   absent.  A CI descriptor line counts as beginning with a key when the key
   is its first word, indentation aside. *)
BeginsWithKey(l, key) ==
    \E k \in 1..Len(l) : l[k] = key /\ \A j \in 1..(k - 1) : l[j] = "  "

IsNewVersionLine(l) ==
    \E name \in BuildNames, n \in BuildNumbers : l = <<"version:", name, ToString(n)>>
IsNewBuildNameLine(l) == \E name \in BuildNames : l = <<"  ", "BUILD_NAME", name>>
IsNewBuildNumberLine(l) ==
    \E n \in BuildNumbers : l = <<"  ", "BUILD_NUMBER", ToString(n)>>

C10_PatchersTouchOnlyKeyLines ==
    [][/\ pubspec'.exists = pubspec.exists
       /\ Len(pubspec'.lines) = Len(pubspec.lines)
       /\ codemagic'.exists = codemagic.exists
       /\ Len(codemagic'.lines) = Len(codemagic.lines)
       /\ pubspec' # pubspec
          => \A k \in 1..Len(pubspec.lines) :
               IF startswith(pubspec.lines[k], "version:")
               THEN IsNewVersionLine(pubspec'.lines[k])
               ELSE pubspec'.lines[k] = pubspec.lines[k]
       /\ codemagic' # codemagic
          => \A k \in 1..Len(codemagic.lines) :
               IF BeginsWithKey(codemagic.lines[k], "BUILD_NAME")
               THEN IsNewBuildNameLine(codemagic'.lines[k])
               ELSE IF BeginsWithKey(codemagic.lines[k], "BUILD_NUMBER")
               THEN IsNewBuildNumberLine(codemagic'.lines[k])
               ELSE codemagic'.lines[k] = codemagic.lines[k]]_vars

====
